---- MODULE Spec2Model ----
(***************************************************************************)
(* Model of the password-preset server actions (src/actions/index.ts) and  *)
(* the two tables they read and write (PasswordPresets,                    *)
(* GeneratedPasswords).                                                    *)
(*                                                                         *)
(* An optional value (a nullable column, context.locals.user) is           *)
(* Null = << >> when it is undefined/NULL and Some(v) = <<v>> when it holds *)
(* v.  An action input is a record whose DOMAIN holds exactly the fields    *)
(* the caller supplied, so `input.f !== undefined` is `"f" \in DOMAIN       *)
(* input`.  Dates are integers.                                             *)
(***************************************************************************)
EXTENDS Integers, Sequences, FiniteSets, Bags, TLC

\* Bounds of the model.
MaxPresets == 2      \* rows PasswordPresets may hold
MaxPasswords == 1    \* rows GeneratedPasswords may hold
MaxTime == 1         \* the clock reads 0..MaxTime
MaxWrites == 3       \* store writes (insert, update), executed or in flight

Null == << >>
Some(v) == <<v>>

Users == {"alice", "bob"}

\* context.locals.user: undefined, or a user record with an id.
Contexts == {Null} \cup {Some([id |-> u]) : u \in Users}

VARIABLES
    PasswordPresets,     \* table: set of preset rows (primary key id)
    GeneratedPasswords,  \* table: set of generated-password rows (primary key id)
    now,                 \* the latest reading of the clock (new Date())
    writes,              \* number of store writes executed so far
    inFlight,            \* bag of store writes issued by a handler, awaiting execution
    response             \* the last action call and what it returned or threw

vars == <<PasswordPresets, GeneratedPasswords, now, writes, inFlight, response>>

----------------------------------------------------------------------------
\* Results of a step that may throw.
Ok(v) == [ok |-> TRUE, value |-> v]
Err(code) == [ok |-> FALSE, code |-> code]

Get(input, field, default) == IF field \in DOMAIN input THEN input[field] ELSE default
Opt(input, field) == IF field \in DOMAIN input THEN Some(input[field]) ELSE Null

\* crypto.randomUUID(): an id no row of the table has; no row is ever deleted.
randomUUID(table) == "id-" \o ToString(Cardinality(table) + 1)

\* new Date(): the clock never runs backwards; two readings may be equal.
Dates == now..MaxTime

requireUser_guest(context) ==
    IF context = Null THEN Ok([id |-> "guest"]) ELSE Ok(context[1])

requireUser(context) ==
    IF context = Null THEN Err("UNAUTHORIZED") ELSE Ok(context[1])

getOwnedPreset_idOnly(presetId, userId) ==
    LET found == {p \in PasswordPresets : p.id = presetId}
    IN  IF found = {} THEN Err("NOT_FOUND") ELSE Ok(CHOOSE p \in found : TRUE)

getOwnedPreset(presetId, userId) ==
    LET found == {p \in PasswordPresets : p.id = presetId /\ p.userId = userId}
    IN  IF found = {} THEN Err("NOT_FOUND") ELSE Ok(CHOOSE p \in found : TRUE)

\* The declared foreign key GeneratedPasswords.presetId -> PasswordPresets.id:
\* the store rejects a row whose presetId is not NULL and matches no preset.
references(presetId) ==
    presetId = Null \/ \E p \in PasswordPresets : p.id = presetId[1]

\* if (input.presetId): undefined and "" are both falsy.
hasPresetId(input) == "presetId" \in DOMAIN input /\ input.presetId # ""

----------------------------------------------------------------------------
\* Input schemas.
MinLength == 4

createPresetInput_excludeSimilar(input) ==
    IF /\ "name" \in DOMAIN input /\ Len(input.name) >= 1
       /\ "length" \in DOMAIN input /\ input.length >= MinLength
    THEN Ok([name             |-> input.name,
             length           |-> input.length,
             includeLowercase |-> Get(input, "includeLowercase", TRUE),
             includeUppercase |-> Get(input, "includeUppercase", TRUE),
             includeNumbers   |-> Get(input, "includeNumbers", TRUE),
             includeSymbols   |-> Get(input, "includeSymbols", TRUE),
             excludeSimilar   |-> Get(input, "excludeSimilar", TRUE),
             customSymbols    |-> Opt(input, "customSymbols"),
             notes            |-> Opt(input, "notes"),
             isDefault        |-> Opt(input, "isDefault")])
    ELSE Err("VALIDATION_ERROR")

createPresetInput(input) ==
    IF /\ "name" \in DOMAIN input /\ Len(input.name) >= 1
       /\ "length" \in DOMAIN input /\ input.length >= MinLength
    THEN Ok([name             |-> input.name,
             length           |-> input.length,
             includeLowercase |-> Get(input, "includeLowercase", TRUE),
             includeUppercase |-> Get(input, "includeUppercase", TRUE),
             includeNumbers   |-> Get(input, "includeNumbers", TRUE),
             includeSymbols   |-> Get(input, "includeSymbols", TRUE),
             excludeSimilar   |-> Get(input, "excludeSimilar", FALSE),
             customSymbols    |-> Opt(input, "customSymbols"),
             notes            |-> Opt(input, "notes"),
             isDefault        |-> Opt(input, "isDefault")])
    ELSE Err("VALIDATION_ERROR")

UpdateFields ==
    {"name", "length", "includeLowercase", "includeUppercase", "includeNumbers",
     "includeSymbols", "excludeSimilar", "customSymbols", "notes", "isDefault"}

updatePresetInput_noRefine(input) ==
    IF /\ "id" \in DOMAIN input /\ Len(input.id) >= 1
       /\ ("length" \in DOMAIN input => input.length >= MinLength)
    THEN Ok(input)
    ELSE Err("VALIDATION_ERROR")

updatePresetInput_noMin(input) ==
    IF /\ "id" \in DOMAIN input /\ Len(input.id) >= 1
       /\ \E f \in UpdateFields : f \in DOMAIN input
    THEN Ok(input)
    ELSE Err("VALIDATION_ERROR")

updatePresetInput(input) ==
    IF /\ "id" \in DOMAIN input /\ Len(input.id) >= 1
       /\ ("length" \in DOMAIN input => input.length >= MinLength)
       /\ \E f \in UpdateFields : f \in DOMAIN input
    THEN Ok(input)
    ELSE Err("VALIDATION_ERROR")

listPresetsInput(input) ==
    Ok([defaultsOnly |-> Get(input, "defaultsOnly", FALSE)])

----------------------------------------------------------------------------
\* The record of a call: which action, who called, with what, and the outcome:
\* code "OK" with the returned data, or the code of the error thrown (no data).
\* storeCalls counts the store operations the handler issued.
Respond(op, context, input, code, data, storeCalls) ==
    response' = [op |-> op, context |-> context, input |-> input,
                 code |-> code, data |-> data, storeCalls |-> storeCalls]

Throw(op, context, input, code, storeCalls) ==
    /\ Respond(op, context, input, code, << >>, storeCalls)
    /\ UNCHANGED <<PasswordPresets, GeneratedPasswords, now, writes, inFlight>>

----------------------------------------------------------------------------
\* The row createPreset inserts.
presetValues(userId, in, date) ==
    [id               |-> randomUUID(PasswordPresets),
     userId           |-> userId,
     name             |-> in.name,
     length           |-> in.length,
     includeLowercase |-> in.includeLowercase,
     includeUppercase |-> in.includeUppercase,
     includeNumbers   |-> in.includeNumbers,
     includeSymbols   |-> in.includeSymbols,
     excludeSimilar   |-> in.excludeSimilar,
     customSymbols    |-> in.customSymbols,
     notes            |-> in.notes,
     isDefault        |-> IF in.isDefault = Null THEN FALSE ELSE in.isDefault[1],
     createdAt        |-> date,
     updatedAt        |-> date]

createPreset(context, input) ==
    LET parsed == createPresetInput(input)
        user == requireUser(context)
    IN  IF ~parsed.ok THEN Throw("createPreset", context, input, parsed.code, 0)
        ELSE IF ~user.ok THEN Throw("createPreset", context, input, user.code, 0)
        ELSE /\ Cardinality(PasswordPresets) < MaxPresets
             /\ writes < MaxWrites
             /\ \E date \in Dates :
                  LET preset == presetValues(user.value.id, parsed.value, date)
                  IN  /\ now' = date
                      /\ writes' = writes + 1
                      /\ PasswordPresets' = PasswordPresets \cup {preset}
                      /\ UNCHANGED <<GeneratedPasswords, inFlight>>
                      /\ Respond("createPreset", context, input, "OK",
                                 [preset |-> preset], 1)

\* Columns that hold NULL when no value was given.
OptionalColumns == {"customSymbols", "notes"}

set_isDefault(preset, input, date) ==
    [f \in DOMAIN preset |->
        IF f = "updatedAt" THEN date
        ELSE IF f = "isDefault" THEN Get(input, "isDefault", FALSE)
        ELSE IF f \in UpdateFields /\ f \in DOMAIN input
             THEN (IF f \in OptionalColumns THEN Some(input[f]) ELSE input[f])
             ELSE preset[f]]

\* The row after .set({...}): the supplied fields and updatedAt replaced.
set(preset, input, date) ==
    [f \in DOMAIN preset |->
        IF f = "updatedAt" THEN date
        ELSE IF f \in UpdateFields /\ f \in DOMAIN input
             THEN (IF f \in OptionalColumns THEN Some(input[f]) ELSE input[f])
             ELSE preset[f]]

\* db.update(PasswordPresets).set(...).where(eq(id, input.id)).returning()
updated(input, date) ==
    {set(p, input, date) : p \in {q \in PasswordPresets : q.id = input.id}}

updatePreset(context, input) ==
    LET parsed == updatePresetInput(input)
        user == requireUser(context)
    IN  IF ~parsed.ok THEN Throw("updatePreset", context, input, parsed.code, 0)
        ELSE IF ~user.ok THEN Throw("updatePreset", context, input, user.code, 0)
        ELSE LET owned == getOwnedPreset(input.id, user.value.id)
             IN  IF ~owned.ok THEN Throw("updatePreset", context, input, owned.code, 1)
                 ELSE /\ writes < MaxWrites
                      /\ \E date \in Dates :
                           /\ now' = date
                           /\ writes' = writes + 1
                           /\ PasswordPresets' =
                                {p \in PasswordPresets : p.id # input.id}
                                   \cup updated(input, date)
                           /\ UNCHANGED <<GeneratedPasswords, inFlight>>
                           /\ Respond("updatePreset", context, input, "OK",
                                      [preset |-> CHOOSE p \in updated(input, date) : TRUE],
                                      2)

selectPresets_anyOwner(userId, defaultsOnly) ==
    {p \in PasswordPresets : defaultsOnly => p.isDefault = TRUE}

\* db.select().from(PasswordPresets).where(and(...filters))
selectPresets(userId, defaultsOnly) ==
    {p \in PasswordPresets : p.userId = userId /\ (defaultsOnly => p.isDefault = TRUE)}

listPresets(context, input) ==
    LET parsed == listPresetsInput(input)
        user == requireUser(context)
    IN  IF ~user.ok THEN Throw("listPresets", context, input, user.code, 0)
        ELSE LET presets == selectPresets(user.value.id, parsed.value.defaultsOnly)
             IN  /\ Respond("listPresets", context, input, "OK",
                            [items |-> presets, total |-> Cardinality(presets)], 1)
                 /\ UNCHANGED <<PasswordPresets, GeneratedPasswords, now, writes, inFlight>>

\* The row logGeneratedPassword inserts.
passwordValues(userId, input, date) ==
    [id             |-> randomUUID(GeneratedPasswords),
     userId         |-> userId,
     presetId       |-> Opt(input, "presetId"),
     encryptedValue |-> Opt(input, "encryptedValue"),
     hintLabel      |-> Opt(input, "hintLabel"),
     length         |-> Opt(input, "length"),
     wasCopied      |-> Get(input, "wasCopied", FALSE),
     lastCopiedAt   |-> Opt(input, "lastCopiedAt"),
     createdAt      |-> date]

logGeneratedPassword(context, input) ==
    LET user == requireUser(context)
        reads == IF hasPresetId(input) THEN 1 ELSE 0
    IN  IF ~user.ok THEN Throw("logGeneratedPassword", context, input, user.code, 0)
        ELSE LET owned == IF hasPresetId(input)
                          THEN getOwnedPreset(input.presetId, user.value.id)
                          ELSE Ok(Null)
             IN  IF ~owned.ok
                 THEN Throw("logGeneratedPassword", context, input, owned.code, reads)
                 ELSE IF ~references(Opt(input, "presetId"))
                 THEN Throw("logGeneratedPassword", context, input,
                            "INTERNAL_SERVER_ERROR", reads + 1)
                 ELSE /\ Cardinality(GeneratedPasswords) < MaxPasswords
                      /\ writes < MaxWrites
                      /\ \E date \in Dates :
                           LET password == passwordValues(user.value.id, input, date)
                           IN  /\ now' = date
                               /\ writes' = writes + 1
                               /\ GeneratedPasswords' = GeneratedPasswords \cup {password}
                               /\ UNCHANGED <<PasswordPresets, inFlight>>
                               /\ Respond("logGeneratedPassword", context, input, "OK",
                                          [password |-> password], reads + 1)

\* db.select().from(GeneratedPasswords).where(and(...filters))
selectPasswords(userId, input) ==
    {g \in GeneratedPasswords :
       /\ g.userId = userId
       /\ (hasPresetId(input) => g.presetId = Some(input.presetId))}

listGeneratedPasswords(context, input) ==
    LET user == requireUser(context)
        reads == IF hasPresetId(input) THEN 1 ELSE 0
    IN  IF ~user.ok THEN Throw("listGeneratedPasswords", context, input, user.code, 0)
        ELSE LET owned == IF hasPresetId(input)
                          THEN getOwnedPreset(input.presetId, user.value.id)
                          ELSE Ok(Null)
             IN  IF ~owned.ok
                 THEN Throw("listGeneratedPasswords", context, input, owned.code, reads)
                 ELSE LET passwords == selectPasswords(user.value.id, input)
                      IN  /\ Respond("listGeneratedPasswords", context, input, "OK",
                                     [items |-> passwords, total |-> Cardinality(passwords)],
                                     reads + 1)
                          /\ UNCHANGED <<PasswordPresets, GeneratedPasswords, now,
                                         writes, inFlight>>

----------------------------------------------------------------------------
\* The inputs the callers send.
PresetIds == {"", "id-1", "id-2"}

AllSupplied ==
    [includeLowercase |-> FALSE, includeUppercase |-> FALSE, includeNumbers |-> FALSE,
     includeSymbols |-> FALSE, excludeSimilar |-> TRUE, customSymbols |-> "!@#",
     notes |-> "router", isDefault |-> TRUE]

CreateInputs ==
    {[name |-> "Wi-Fi", length |-> 12],
     [name |-> "Wi-Fi", length |-> 3]}

UpdateChanges ==
    {<< >>,
     [length |-> 20],
     [name |-> ""] @@ AllSupplied}

UpdateInputs == {[id |-> i] @@ c : i \in PresetIds, c \in UpdateChanges}

ListPresetsInputs == {<< >>, [defaultsOnly |-> TRUE]}

LogInputs ==
    {[encryptedValue |-> "c2VjcmV0", hintLabel |-> "Gmail", length |-> 16,
      wasCopied |-> TRUE, lastCopiedAt |-> 0]}
       \cup {[presetId |-> i] : i \in PresetIds}

ListPasswordsInputs == {<< >>} \cup {[presetId |-> i] : i \in PresetIds}

\* Inputs that exercise every field of a preset.
AllFieldsCreateInputs ==
    {[name |-> "Wi-Fi", length |-> 12],
     [name |-> "Bank", length |-> 4] @@ AllSupplied,
     [name |-> "", length |-> 12],
     [name |-> "Wi-Fi", length |-> 3]}

AllFieldsUpdateInputs ==
    {[id |-> i] @@ c : i \in PresetIds, c \in UpdateChanges \cup {[length |-> 3]}}

----------------------------------------------------------------------------
Init ==
    /\ PasswordPresets = {}
    /\ GeneratedPasswords = {}
    /\ now = 0
    /\ writes = 0
    /\ inFlight = EmptyBag
    /\ response = [op |-> "none", context |-> Null, input |-> << >>,
                   code |-> "OK", data |-> << >>, storeCalls |-> 0]

\* Calls served one at a time, each handler running to completion.
Next ==
    \/ \E context \in Contexts, input \in CreateInputs : createPreset(context, input)
    \/ \E context \in Contexts, input \in UpdateInputs : updatePreset(context, input)
    \/ \E context \in Contexts, input \in ListPresetsInputs : listPresets(context, input)
    \/ \E context \in Contexts, input \in LogInputs : logGeneratedPassword(context, input)
    \/ \E context \in Contexts, input \in ListPasswordsInputs :
         listGeneratedPasswords(context, input)

Spec == Init /\ [][Next]_vars

\* The preset handlers alone, over inputs that exercise every preset field.
NextPresets ==
    \/ \E context \in Contexts, input \in AllFieldsCreateInputs :
         createPreset(context, input)
    \/ \E context \in Contexts, input \in AllFieldsUpdateInputs :
         updatePreset(context, input)
    \/ \E context \in Contexts, input \in ListPresetsInputs : listPresets(context, input)

SpecPresets == Init /\ [][NextPresets]_vars

----------------------------------------------------------------------------
\* Calls that overlap.  A handler that reads the store and then writes it runs
\* up to its write statement in one step (every await before it has resolved);
\* the statement it then issues, with the values already computed (new Date()
\* included), is in flight until the store executes it, and the statements of
\* different calls execute in any order.
Issue(statement) ==
    /\ writes + BagCardinality(inFlight) < MaxWrites
    /\ inFlight' = inFlight (+) SetToBag({statement})
    /\ UNCHANGED <<PasswordPresets, GeneratedPasswords, writes, response>>

\* updatePreset up to the update statement: validation, session, ownership read.
updatePresetIssue(context, input) ==
    LET parsed == updatePresetInput(input)
        user == requireUser(context)
    IN  IF ~parsed.ok THEN Throw("updatePreset", context, input, parsed.code, 0)
        ELSE IF ~user.ok THEN Throw("updatePreset", context, input, user.code, 0)
        ELSE LET owned == getOwnedPreset(input.id, user.value.id)
             IN  IF ~owned.ok THEN Throw("updatePreset", context, input, owned.code, 1)
                 ELSE \E date \in Dates :
                        /\ now' = date
                        /\ Issue([op |-> "updatePreset", context |-> context,
                                  input |-> input, owned |-> owned.value,
                                  date |-> date])

write_fromOwned(statement, preset) ==
    set(statement.owned, statement.input, statement.date)

\* The row an in-flight update statement leaves in place of the stored one.
write(statement, preset) ==
    set(preset, statement.input, statement.date)

\* The store executes an in-flight update statement; the handler returns.
updatePresetExecute(statement) ==
    LET rows == {write(statement, p) :
                   p \in {q \in PasswordPresets : q.id = statement.input.id}}
    IN  /\ statement.op = "updatePreset"
        /\ writes < MaxWrites
        /\ writes' = writes + 1
        /\ inFlight' = inFlight (-) SetToBag({statement})
        /\ PasswordPresets' =
             {p \in PasswordPresets : p.id # statement.input.id} \cup rows
        /\ UNCHANGED <<GeneratedPasswords, now>>
        /\ Respond("updatePreset", statement.context, statement.input, "OK",
                   [preset |-> CHOOSE p \in rows : TRUE], 2)

\* logGeneratedPassword up to the insert statement: session, ownership read.
logGeneratedPasswordIssue(context, input) ==
    LET user == requireUser(context)
        reads == IF hasPresetId(input) THEN 1 ELSE 0
    IN  IF ~user.ok THEN Throw("logGeneratedPassword", context, input, user.code, 0)
        ELSE LET owned == IF hasPresetId(input)
                          THEN getOwnedPreset(input.presetId, user.value.id)
                          ELSE Ok(Null)
             IN  IF ~owned.ok
                 THEN Throw("logGeneratedPassword", context, input, owned.code, reads)
                 ELSE \E date \in Dates :
                        /\ now' = date
                        /\ Issue([op |-> "logGeneratedPassword", context |-> context,
                                  input |-> input, userId |-> user.value.id,
                                  date |-> date, reads |-> reads])

\* The store executes an in-flight insert statement; the handler returns or
\* rethrows the store's error.
logGeneratedPasswordExecute(statement) ==
    LET password == passwordValues(statement.userId, statement.input, statement.date)
    IN  /\ statement.op = "logGeneratedPassword"
        /\ inFlight' = inFlight (-) SetToBag({statement})
        /\ UNCHANGED <<PasswordPresets, now>>
        /\ IF ~references(Opt(statement.input, "presetId"))
           THEN /\ Respond("logGeneratedPassword", statement.context, statement.input,
                           "INTERNAL_SERVER_ERROR", << >>, statement.reads + 1)
                /\ UNCHANGED <<GeneratedPasswords, writes>>
           ELSE /\ Cardinality(GeneratedPasswords) < MaxPasswords
                /\ writes < MaxWrites
                /\ writes' = writes + 1
                /\ GeneratedPasswords' = GeneratedPasswords \cup {password}
                /\ Respond("logGeneratedPassword", statement.context, statement.input,
                           "OK", [password |-> password], statement.reads + 1)

OverlappingCreateInputs == {[name |-> "Wi-Fi", length |-> 12]}

\* Two updates of one preset that overlap in length and differ in name.
OverlappingUpdateInputs ==
    {[id |-> "id-1", length |-> 20],
     [id |-> "id-1", length |-> 16, name |-> "Bank"]}

OverlappingLogInputs == {[presetId |-> i] : i \in {"", "id-1"}}

NextOverlapping ==
    \/ \E context \in Contexts, input \in OverlappingCreateInputs :
         createPreset(context, input)
    \/ \E context \in Contexts, input \in OverlappingUpdateInputs :
         updatePresetIssue(context, input)
    \/ \E context \in Contexts, input \in OverlappingLogInputs :
         logGeneratedPasswordIssue(context, input)
    \/ \E statement \in BagToSet(inFlight) : updatePresetExecute(statement)
    \/ \E statement \in BagToSet(inFlight) : logGeneratedPasswordExecute(statement)

SpecOverlapping == Init /\ [][NextOverlapping]_vars

----------------------------------------------------------------------------
\* Vocabulary of the properties below.
Authenticated(r) == r.context # Null
CallerId(r) == r.context[1].id

ValidCreateInput(input) ==
    /\ "name" \in DOMAIN input /\ input.name # ""
    /\ "length" \in DOMAIN input /\ input.length >= 4

ValidUpdateInput(input) ==
    /\ "id" \in DOMAIN input /\ input.id # ""
    /\ ("length" \in DOMAIN input => input.length >= 4)
    /\ DOMAIN input \cap UpdateFields # {}

SchemaValid(r) ==
    /\ r.op = "createPreset" => ValidCreateInput(r.input)
    /\ r.op = "updatePreset" => ValidUpdateInput(r.input)

Supplied(input, field, default) ==
    IF field \in DOMAIN input THEN input[field] ELSE default

TablesUnchanged == UNCHANGED <<PasswordPresets, GeneratedPasswords>>

\* The call names a preset: updatePreset by id, the password actions by presetId.
TargetsPreset(r) ==
    \/ r.op = "updatePreset" /\ "id" \in DOMAIN r.input
    \/ r.op \in {"logGeneratedPassword", "listGeneratedPasswords"}
         /\ "presetId" \in DOMAIN r.input

Target(r) == IF r.op = "updatePreset" THEN r.input.id ELSE r.input.presetId

\* The id is a preset of another user, or of nobody.
NotOwnedBy(id, userId) ==
    ~ \E p \in PasswordPresets : p.id = id /\ p.userId = userId

FailsNotFound ==
    /\ response'.code = "NOT_FOUND"
    /\ response'.data = << >>
    /\ TablesUnchanged

\* C1: a schema-valid updatePreset, logGeneratedPassword or
\* listGeneratedPasswords call that names a preset id the caller does not own
\* (another user's, or matching no preset) fails with NOT_FOUND, returns no
\* data and leaves both tables unchanged.
C1_NotFoundForAnyForeignId ==
    [][(/\ Authenticated(response')
        /\ SchemaValid(response')
        /\ TargetsPreset(response')
        /\ NotOwnedBy(Target(response'), CallerId(response')))
       => FailsNotFound]_vars

\* C2: a schema-valid call of any of the five handlers with no user in the
\* context fails with UNAUTHORIZED before any store read or write: no data is
\* returned and both tables are unchanged.
C2_Unauthorized ==
    [][(/\ response'.op # "none"
        /\ ~Authenticated(response')
        /\ SchemaValid(response'))
       => (/\ response'.code = "UNAUTHORIZED"
           /\ response'.data = << >>
           /\ response'.storeCalls = 0
           /\ TablesUnchanged)]_vars

C2_Witness ==
    /\ response.op = "logGeneratedPassword"
    /\ ~Authenticated(response)
    /\ response.code = "UNAUTHORIZED"
    /\ PasswordPresets # {}
    /\ "presetId" \in DOMAIN response.input
    /\ \E p \in PasswordPresets : p.id = response.input.presetId

\* C3: updatePreset with an id and none of the ten optional fields fails with
\* a validation error, whoever calls and whether or not the preset exists, and
\* no row changes.
C3_UpdateWithoutFields ==
    [][(/\ response'.op = "updatePreset"
        /\ DOMAIN response'.input \cap UpdateFields = {})
       => (/\ response'.code = "VALIDATION_ERROR"
           /\ response'.data = << >>
           /\ TablesUnchanged)]_vars

C3_Witness ==
    /\ response.op = "updatePreset"
    /\ DOMAIN response.input = {"id"}
    /\ response.code = "VALIDATION_ERROR"
    /\ Authenticated(response)
    /\ \E p \in PasswordPresets :
         p.id = response.input.id /\ p.userId = CallerId(response)

\* C4: a valid createPreset by an authenticated caller returns and stores a
\* record with userId = caller, the supplied length (>= 4), each flag equal to
\* the supplied value or its default (true; false for excludeSimilar and
\* isDefault) and createdAt = updatedAt; exactly that row is added.
C4_CreatePreset ==
    [][(/\ response'.op = "createPreset"
        /\ Authenticated(response')
        /\ ValidCreateInput(response'.input))
       => LET in == response'.input
              row == response'.data.preset
          IN  /\ response'.code = "OK"
              /\ row.userId = CallerId(response')
              /\ row.name = in.name
              /\ row.length = in.length /\ row.length >= 4
              /\ row.includeLowercase = Supplied(in, "includeLowercase", TRUE)
              /\ row.includeUppercase = Supplied(in, "includeUppercase", TRUE)
              /\ row.includeNumbers = Supplied(in, "includeNumbers", TRUE)
              /\ row.includeSymbols = Supplied(in, "includeSymbols", TRUE)
              /\ row.excludeSimilar = Supplied(in, "excludeSimilar", FALSE)
              /\ row.isDefault = Supplied(in, "isDefault", FALSE)
              /\ row.createdAt = row.updatedAt
              /\ \A p \in PasswordPresets : p.id # row.id
              /\ PasswordPresets' = PasswordPresets \cup {row}
              /\ UNCHANGED GeneratedPasswords]_vars

C4_Witness ==
    /\ response.op = "createPreset"
    /\ response.code = "OK"
    /\ DOMAIN response.input = {"name", "length"}
    /\ response.data.preset \in PasswordPresets
    /\ \E p \in PasswordPresets :
         p.id # response.data.preset.id /\ p.excludeSimilar = TRUE

\* What a column holds after a value v was supplied for it.
StoredAs(field, v) == IF field \in {"customSymbols", "notes"} THEN Some(v) ELSE v

\* A successful updatePreset by the owner changed exactly the supplied fields
\* of the one preset: every other field but updatedAt, every other preset and
\* every generated-password row is as before.
UpdateFrame ==
    LET in == response'.input
        old == CHOOSE p \in PasswordPresets : p.id = in.id
        new == response'.data.preset
    IN  /\ old.userId = CallerId(response')
        /\ DOMAIN new = DOMAIN old
        /\ \A f \in DOMAIN old :
             IF f \in UpdateFields /\ f \in DOMAIN in
             THEN new[f] = StoredAs(f, in[f])
             ELSE f # "updatedAt" => new[f] = old[f]
        /\ PasswordPresets' = (PasswordPresets \ {old}) \cup {new}
        /\ UNCHANGED GeneratedPasswords

UpdateSucceeded == response'.op = "updatePreset" /\ response'.code = "OK"

\* C5 as stated: a successful updatePreset changes exactly the supplied fields
\* and advances updatedAt.
C5_UpdateAdvancesUpdatedAt ==
    [][UpdateSucceeded
       => (/\ UpdateFrame
           /\ LET old == CHOOSE p \in PasswordPresets : p.id = response'.input.id
              IN  response'.data.preset.updatedAt > old.updatedAt)]_vars

\* C5 amended: a successful updatePreset changes exactly the supplied fields
\* and stamps updatedAt with the clock reading of the call, which is never
\* earlier than the previous stamp and may be equal to it.
C5_UpdateStampsUpdatedAt ==
    [][UpdateSucceeded
       => (/\ UpdateFrame
           /\ LET old == CHOOSE p \in PasswordPresets : p.id = response'.input.id
              IN  /\ response'.data.preset.updatedAt = now'
                  /\ response'.data.preset.updatedAt >= old.updatedAt)]_vars

C5_Witness ==
    /\ response.op = "updatePreset"
    /\ response.code = "OK"
    /\ DOMAIN response.input = {"id", "length"}
    /\ response.data.preset \in PasswordPresets
    /\ response.data.preset.updatedAt > response.data.preset.createdAt
    /\ \E p \in PasswordPresets : p.id # response.input.id

\* C6: listPresets returns exactly the caller's presets, only those with
\* isDefault = true when defaultsOnly is set, and total is their number; so
\* the defaultsOnly list is the isDefault subset of the full list.
C6_ListPresets ==
    (response.op = "listPresets" /\ Authenticated(response))
    => LET own == {p \in PasswordPresets : p.userId = CallerId(response)}
       IN  /\ response.code = "OK"
           /\ response.data.items =
                IF Supplied(response.input, "defaultsOnly", FALSE)
                THEN {p \in own : p.isDefault = TRUE}
                ELSE own
           /\ response.data.total = Cardinality(response.data.items)

C6_Witness ==
    /\ response.op = "listPresets"
    /\ Authenticated(response)
    /\ Supplied(response.input, "defaultsOnly", FALSE)
    /\ response.data.total = 1
    /\ \E p \in PasswordPresets : p.userId # CallerId(response) /\ p.isDefault

\* C8: every stored preset has an integer length >= 4, and a createPreset or
\* updatePreset that supplies a length below 4 fails validation and changes
\* nothing.
C8_LengthAtLeastFour ==
    [][/\ \A p \in PasswordPresets' : p.length \in Int /\ p.length >= 4
       /\ (/\ response'.op \in {"createPreset", "updatePreset"}
           /\ "length" \in DOMAIN response'.input
           /\ response'.input.length < 4)
          => (response'.code = "VALIDATION_ERROR" /\ TablesUnchanged)]_vars

C8_Witness ==
    /\ response.op = "updatePreset"
    /\ response.code = "VALIDATION_ERROR"
    /\ Authenticated(response)
    /\ "length" \in DOMAIN response.input
    /\ response.input.length < 4
    /\ \E p \in PasswordPresets :
         /\ p.id = response.input.id
         /\ p.userId = CallerId(response)
         /\ p.length = 20

\* C7: in every state reached by the five operations, run one after another
\* or overlapping, every generated-password row with a presetId (not NULL)
\* references a stored preset whose userId is the row's userId.
C7_PresetOfSameUser ==
    \A g \in GeneratedPasswords :
       g.presetId # Null
       => \E p \in PasswordPresets : p.id = g.presetId[1] /\ p.userId = g.userId

\* A row logged against a preset whose insert executed after a later call's
\* update of that preset.
C7_Witness ==
    /\ response.op = "logGeneratedPassword"
    /\ response.code = "OK"
    /\ \E g \in GeneratedPasswords, p \in PasswordPresets :
         /\ g = response.data.password
         /\ g.presetId = Some(p.id)
         /\ g.createdAt < p.updatedAt
         /\ p.length = 20

\* Every in-flight update statement still has its row, owned by its caller.
InFlightUpdatesOwned ==
    \A statement \in BagToSet(inFlight') :
       statement.op = "updatePreset"
       => \E p \in PasswordPresets' :
            p.id = statement.input.id /\ p.userId = CallerId(statement)

\* C9: overlapping updatePreset calls by the owner of a preset, each an
\* ownership read and a later write, all succeed, and each write, in the order
\* the writes commit, puts its supplied fields on top of the row as stored at
\* that moment: fields it does not supply keep what the earlier commits left,
\* and no other row changes.
C9_LastWriteWins ==
    [][/\ (/\ response'.op = "updatePreset"
           /\ Authenticated(response')
           /\ SchemaValid(response')
           /\ ~NotOwnedBy(response'.input.id, CallerId(response')))
          => (response'.code = "OK" /\ UpdateFrame)
       /\ InFlightUpdatesOwned]_vars

\* One update has committed while another update of the same preset by the
\* same user, issued before that commit, is still in flight.
C9_Witness ==
    /\ response.op = "updatePreset"
    /\ response.code = "OK"
    /\ response.data.preset \in PasswordPresets
    /\ \E statement \in BagToSet(inFlight) :
         /\ statement.op = "updatePreset"
         /\ statement.input.id = response.input.id
         /\ statement.context = response.context
         /\ statement.input # response.input
         /\ statement.owned # response.data.preset
         /\ statement.owned.name # response.data.preset.name

\* C10: updatePreset accepts for a field only a value createPreset
\* would accept, so every stored preset has a non-empty name.
C10_NameNeverEmpty ==
    /\ \A p \in PasswordPresets : p.name # ""
    /\ (response.op = "updatePreset" /\ response.code = "OK")
       => /\ "name" \in DOMAIN response.input => response.input.name # ""
          /\ "length" \in DOMAIN response.input => response.input.length >= 4

====
